---- MODULE Spec2Model ----
(***************************************************************************)
(* The per-partition storage engine of kafka-clone: one Partition          *)
(* (src/unnamed/part_000) over its Segments                                *)
(* (src/internal/logstore/segment.go), modelled down to the bytes of the   *)
(* log and index files so that framing, CRC verification, recovery and     *)
(* the index-assisted scan are computed the way the Go code computes them. *)
(*                                                                         *)
(* A file is a sequence of bytes (0..255).  Integers read back from a      *)
(* file are kept as their big-endian byte tuples and compared as such, so  *)
(* that a frame parsed at a wrong position (after a short write, or in a   *)
(* zero-filled tail) yields whatever the bytes there say.                  *)
(***************************************************************************)
EXTENDS Integers, Sequences, FiniteSets, TLC

(***************************************************************************)
(* Bounds of the model.                                                    *)
(***************************************************************************)
\* Partition.Append calls per behaviour (successful or failed).
MaxAppends == 3
\* Of those, how many may fail at a write step.
MaxFaults == 2
\* Partition.Close / NewPartition cycles per behaviour.
MaxReopens == 1
\* A failing write leaves 0 or MaxShort bytes of its buffer in the file
\* (MaxShort is cut to the buffer length minus one).
MaxShort == 3

(***************************************************************************)
(* Program constants.  The two thresholds are scaled from 128 MiB and      *)
(* 4096 bytes to a few records' worth of bytes, keeping their order        *)
(* (one frame header < IndexInterval < SegmentMaxBytes) so that a segment  *)
(* holds indexed and unindexed records and rolls within MaxAppends.        *)
(***************************************************************************)
SegmentMaxBytes == 33
IndexInterval == 18
\* Widths of the frame fields: offset int64, length int32, crc uint32.
OffsetBytes == 8
LengthBytes == 4
CrcBytes == 4
\* Widths of the index fields: RelativeOffset int32, Position int32.
RelBytes == 4
PosBytes == 4
\* Width of the zero-padded base offset in a file name ("%020d").
NameDigits == 20

\* The payloads the producer sends: the empty one and one of one byte.
Payloads == {<<>>, <<1>>}

(***************************************************************************)
(* encoding/binary, big-endian                                             *)
(***************************************************************************)
RECURSIVE Pow(_, _)
Pow(b, e) == IF e = 0 THEN 1 ELSE b * Pow(b, e - 1)

\* binary.Write of a non-negative integer below 2^31 into w bytes.
BE(n, w) ==
    [i \in 1..w |-> IF w - i > 3 THEN 0 ELSE (n \div Pow(256, w - i)) % 256]

\* The top bit of a big-endian field is set (a negative int64 / int32).
IsNeg(bs) == bs[1] >= 128

\* The field is a non-negative value below 2^31 (it fits the model's integers).
Fits(bs) ==
    /\ \A i \in 1..(Len(bs) - 4) : bs[i] = 0
    /\ bs[Len(bs) - 3] < 128

\* The value of a field that Fits.
Val(bs) ==
    LET n == Len(bs)
    IN  bs[n - 3] * 16777216 + bs[n - 2] * 65536 + bs[n - 1] * 256 + bs[n]

(***************************************************************************)
(* hash/crc32.ChecksumIEEE: the reflected CRC-32 (polynomial 0xEDB88320),  *)
(* on 32-bit words held as bit vectors, bit 0 the least significant.       *)
(***************************************************************************)
Bit(n, k) == (n \div Pow(2, k)) % 2 = 1

\* 0xEDB88320 as its four bytes, most significant first.
PolyBytes == <<237, 184, 131, 32>>

Poly == [k \in 0..31 |-> Bit(PolyBytes[4 - (k \div 8)], k % 8)]

XorBits(a, b) == [k \in 0..31 |-> a[k] # b[k]]

ShiftRight(a) == [k \in 0..31 |-> IF k = 31 THEN FALSE ELSE a[k + 1]]

RECURSIVE CrcRounds(_, _)
CrcRounds(c, n) ==
    IF n = 0 THEN c
    ELSE CrcRounds(IF c[0] THEN XorBits(ShiftRight(c), Poly) ELSE ShiftRight(c), n - 1)

CrcByte(c, byte) ==
    CrcRounds([k \in 0..31 |-> IF k < 8 THEN c[k] # Bit(byte, k) ELSE c[k]], 8)

RECURSIVE CrcUpdate(_, _, _)
CrcUpdate(c, payload, i) ==
    IF i > Len(payload) THEN c ELSE CrcUpdate(CrcByte(c, payload[i]), payload, i + 1)

BitsToByte(c, lo) ==
    LET RECURSIVE Sum(_)
        Sum(k) == IF k = 8 THEN 0 ELSE (IF c[lo + k] THEN Pow(2, k) ELSE 0) + Sum(k + 1)
    IN  Sum(0)

\* The checksum as the 4 bytes binary.Write puts in the file.
ChecksumIEEE(payload) ==
    LET c == CrcUpdate([k \in 0..31 |-> TRUE], payload, 1)
        f == [k \in 0..31 |-> ~c[k]]
    IN  <<BitsToByte(f, 24), BitsToByte(f, 16), BitsToByte(f, 8), BitsToByte(f, 0)>>

(***************************************************************************)
(* Reading a file: io.ReadFull at a file position                          *)
(***************************************************************************)
\* Error values of the program; NoErr is Go's nil.
NoErr == "nil"
EOF == "EOF"
ErrUnexpectedEOF == "unexpected EOF"
\* make([]byte, length) with a negative length.
ErrPanic == "panic: makeslice: len out of range"
\* A write the file system refused (the fault injected by AppendFail).
ErrWrite == "write error"
\* Segment.Read: fmt.Errorf("offset %d out of range [%d, %d)").
ErrSegOutOfRange == "offset out of range"
\* Segment.Read: fmt.Errorf("offset %d not found").
ErrSegNotFound == "offset not found"
\* Partition.Read: fmt.Errorf("offset %d not found in partition %d").
ErrPartNotFound == "offset not found in partition"

Slice(file, pos, n) == [i \in 1..n |-> file[pos + i]]

\* io.ReadFull(f, buf) with len(buf) = n and the file position at pos
\* (bytes 1..Len(file) of the file are positions 0..Len(file)-1).
ReadFull(file, pos, n) ==
    IF n = 0 THEN [err |-> NoErr, bytes |-> <<>>]
    ELSE IF n <= Len(file) - pos THEN [err |-> NoErr, bytes |-> Slice(file, pos, n)]
    ELSE IF pos >= Len(file) THEN [err |-> EOF, bytes |-> <<>>]
    ELSE [err |-> ErrUnexpectedEOF, bytes |-> <<>>]

\* The four reads both recover and Segment.Read make for one frame:
\* offset, length, crc, then length bytes of payload.  field names the read
\* that failed.
ReadFrame(file, pos) ==
    LET o == ReadFull(file, pos, OffsetBytes)
        l == ReadFull(file, pos + OffsetBytes, LengthBytes)
        c == ReadFull(file, pos + OffsetBytes + LengthBytes, CrcBytes)
        hdr == OffsetBytes + LengthBytes + CrcBytes
        bad(e, f) == [err |-> e, field |-> f, offset |-> <<>>, crc |-> <<>>,
                      payload |-> <<>>, next |-> pos]
    IN  IF o.err # NoErr THEN bad(o.err, "offset")
        ELSE IF l.err # NoErr THEN bad(l.err, "length")
        ELSE IF c.err # NoErr THEN bad(c.err, "crc")
        ELSE IF IsNeg(l.bytes) THEN bad(ErrPanic, "payload")
        ELSE LET p == ReadFull(file, pos + hdr, Val(l.bytes))
             IN  IF p.err # NoErr THEN bad(p.err, "payload")
                 ELSE [err |-> NoErr, field |-> "", offset |-> o.bytes, crc |-> c.bytes,
                       payload |-> p.bytes, next |-> pos + hdr + Val(l.bytes)]

\* An int64 read from the log as a model integer.  The model's integers
\* are 32 bits wide, so a value beyond +-ClampMax (2^30 - 1) stands for
\* itself only as "huge": it is clamped to that end of the range.  Under
\* Spec and SpecNoFault no reachable state holds a clamped value (TypeOK);
\* under SpecCorrupt a zero-filled tail read at an odd position can yield one.
ClampMax == 1073741823
OffsetValue(bs) ==
    IF Fits(bs) THEN (IF Val(bs) > ClampMax THEN ClampMax ELSE Val(bs))
    ELSE IF IsNeg(bs) THEN -ClampMax ELSE ClampMax

\* An int32 read from the index.
Int32Value(bs) ==
    (IF bs[1] >= 128 THEN bs[1] - 256 ELSE bs[1]) * 16777216
        + bs[2] * 65536 + bs[3] * 256 + bs[4]

(***************************************************************************)
(* Segment.recover                                                         *)
(***************************************************************************)
\* Lines 88-101: load (RelativeOffset, Position) pairs until EOF on the
\* first field of a pair; any other read error is returned.
RECURSIVE LoadIndex(_, _, _)
LoadIndex(file, pos, entries) ==
    LET r == ReadFull(file, pos, RelBytes)
        p == ReadFull(file, pos + RelBytes, PosBytes)
    IN  IF r.err = EOF THEN [err |-> NoErr, entries |-> entries]
        ELSE IF r.err # NoErr THEN [err |-> r.err, entries |-> entries]
        ELSE IF p.err # NoErr THEN [err |-> p.err, entries |-> entries]
        ELSE LoadIndex(file, pos + RelBytes + PosBytes,
                       Append(entries, [RelativeOffset |-> Int32Value(r.bytes),
                                        Position |-> Int32Value(p.bytes)]))

\* Lines 104-142: scan the log from byte 0.  cur is the file position,
\* position the end of the last valid record, nextOffset the running
\* s.nextOffset.  truncate is the argument of logFile.Truncate, or -1 when
\* the scan ends without truncating.
RECURSIVE ScanLog(_, _, _, _)
\* One iteration of the loop, f being the frame read at the file position.
ScanStep(file, position, nextOffset, f) ==
    IF f.err = EOF /\ f.field = "offset"
    THEN [err |-> NoErr, truncate |-> -1, nextOffset |-> nextOffset]
    ELSE IF f.err # NoErr
    THEN [err |-> f.err, truncate |-> -1, nextOffset |-> nextOffset]
    ELSE IF f.crc # ChecksumIEEE(f.payload)
    THEN [err |-> NoErr, truncate |-> position, nextOffset |-> nextOffset]
    ELSE ScanLog(file, f.next, f.next, OffsetValue(f.offset) + 1)

ScanLog(file, cur, position, nextOffset) ==
    ScanStep(file, position, nextOffset, ReadFrame(file, cur))

\* recover on a segment whose fields NewSegment has just set.  Returns the
\* error, the segment and the log file as recover leaves them.
Recovered(seg, log, ix, sc) ==
    IF ix.err # NoErr THEN [err |-> ix.err, seg |-> seg, log |-> log]
    ELSE IF sc.err # NoErr THEN [err |-> sc.err, seg |-> seg, log |-> log]
    ELSE [err |-> NoErr,
          seg |-> [seg EXCEPT !.indexEntries = ix.entries,
                              !.nextOffset = sc.nextOffset],
          log |-> IF sc.truncate >= 0 THEN SubSeq(log, 1, sc.truncate) ELSE log]

recover(seg, log, index) ==
    Recovered(seg, log, LoadIndex(index, 0, seg.indexEntries),
              ScanLog(log, 0, 0, seg.nextOffset))

(***************************************************************************)
(* File names: fmt.Sprintf("%020d", baseOffset) and strconv.ParseInt       *)
(***************************************************************************)
\* The decimal digits of a base offset, zero-padded to NameDigits.  Base
\* offsets are below 2^31, so the digits above the tenth are the padding.
SegmentName(baseOffset) ==
    [i \in 1..NameDigits |->
        IF NameDigits - i > 9 THEN 0 ELSE (baseOffset \div Pow(10, NameDigits - i)) % 10]

\* strconv.ParseInt(name, 10, 64) on such a name.
RECURSIVE ParseInt(_, _, _)
ParseInt(name, i, acc) ==
    IF i > Len(name) THEN acc ELSE ParseInt(name, i + 1, acc * 10 + name[i])

(***************************************************************************)
(* NewSegment                                                              *)
(***************************************************************************)
\* os.OpenFile(path, O_CREATE|O_RDWR|O_APPEND): the directory after the call.
OpenFile(files, name) ==
    IF name \in DOMAIN files THEN files ELSE (name :> <<>>) @@ files

\* NewSegment(dir, baseOffset) on the directory (logs, indexes): both files
\* are opened (created when absent), size is the stat size of the log, and
\* recover runs.  The segment holds its file handles as the file name.
Opened(logs, indexes, name, r) ==
    [err |-> r.err, seg |-> r.seg, logs |-> [logs EXCEPT ![name] = r.log],
     indexes |-> indexes]

OpenSegment(logs, indexes, baseOffset, name) ==
    Opened(logs, indexes, name,
           recover([baseOffset |-> baseOffset, file |-> name,
                    size |-> Len(logs[name]), nextOffset |-> baseOffset,
                    indexEntries |-> <<>>],
                   logs[name], indexes[name]))

NewSegment(logs, indexes, baseOffset) ==
    OpenSegment(OpenFile(logs, SegmentName(baseOffset)),
                OpenFile(indexes, SegmentName(baseOffset)),
                baseOffset, SegmentName(baseOffset))

(***************************************************************************)
(* Segment.Append                                                          *)
(***************************************************************************)
\* A fault is the write of Segment.Append that fails and how many bytes of
\* its buffer reach the file first; step 0 is no fault.
NoFault == [step |-> 0, short |-> 0]
StepOffset == 1
StepLength == 2
StepCrc == 3
StepPayload == 4
StepIndexRel == 5
StepIndexPos == 6

Prefix(bs, n) == SubSeq(bs, 1, n)

\* What a sequence of writes leaves in a file when write number `failing`
\* of them fails after `short` bytes (none fails when failing is 0).
RECURSIVE WriteAll(_, _, _, _, _)
WriteAll(file, bufs, i, failing, short) ==
    IF i > Len(bufs) THEN file
    ELSE IF i = failing THEN file \o Prefix(bufs[i], short)
    ELSE WriteAll(file \o bufs[i], bufs, i + 1, failing, short)

\* Line 178: whether this append writes an index entry.
NeedsIndex(seg, position) ==
    \/ Len(seg.indexEntries) = 0
    \/ position - seg.indexEntries[Len(seg.indexEntries)].Position >= IndexInterval

\* A variant of Appended with s.nextOffset++ moved above the index write, so
\* that an append failing at the index has already advanced nextOffset.
AppendedEarlyIncrement(seg, position, size, needs, fault, log1, index, index1) ==
    IF fault.step \in StepOffset..StepPayload
    THEN [err |-> ErrWrite, failed |-> TRUE, seg |-> seg, log |-> log1,
          index |-> index, stamped |-> seg.nextOffset]
    ELSE IF needs /\ fault.step \in StepIndexRel..StepIndexPos
    THEN [err |-> ErrWrite, failed |-> TRUE,
          seg |-> [seg EXCEPT !.size = size, !.nextOffset = @ + 1],
          log |-> log1, index |-> index1, stamped |-> seg.nextOffset]
    ELSE [err |-> NoErr, failed |-> FALSE,
          seg |-> [seg EXCEPT !.size = size,
                              !.indexEntries =
                                  IF needs
                                  THEN Append(@, [RelativeOffset |->
                                                      seg.nextOffset - seg.baseOffset,
                                                  Position |-> position])
                                  ELSE @,
                              !.nextOffset = @ + 1],
          log |-> log1, index |-> index1, stamped |-> seg.nextOffset]

\* Segment.Append(entry) on a segment and its two files.  entry is passed
\* by value: the offset stamped at line 151 lives in the callee's copy and
\* is reported here as `stamped`; the caller's entry is not touched.
\* Lines 157-196, given the bytes the log and index writes leave behind.
\* failed says that a write failed, err is what the function returns.
Appended(seg, position, size, needs, fault, log1, index, index1) ==
    IF fault.step \in StepOffset..StepPayload
    THEN [err |-> ErrWrite, failed |-> TRUE, seg |-> seg, log |-> log1,
          index |-> index, stamped |-> seg.nextOffset]
    ELSE IF needs /\ fault.step \in StepIndexRel..StepIndexPos
    THEN [err |-> ErrWrite, failed |-> TRUE, seg |-> [seg EXCEPT !.size = size],
          log |-> log1, index |-> index1, stamped |-> seg.nextOffset]
    ELSE [err |-> NoErr, failed |-> FALSE,
          seg |-> [seg EXCEPT !.size = size,
                              !.indexEntries =
                                  IF needs
                                  THEN Append(@, [RelativeOffset |->
                                                      seg.nextOffset - seg.baseOffset,
                                                  Position |-> position])
                                  ELSE @,
                              !.nextOffset = @ + 1],
          log |-> log1, index |-> index1, stamped |-> seg.nextOffset]

SegmentAppend(seg, log, index, payload, fault) ==
    Appended(seg, Len(log),
             Len(log) + OffsetBytes + LengthBytes + CrcBytes + Len(payload),
             NeedsIndex(seg, Len(log)), fault,
             WriteAll(log,
                      <<BE(seg.nextOffset, OffsetBytes), BE(Len(payload), LengthBytes),
                        ChecksumIEEE(payload), payload>>,
                      1, fault.step, fault.short),
             index,
             IF NeedsIndex(seg, Len(log))
             THEN WriteAll(index,
                           <<BE(seg.nextOffset - seg.baseOffset, RelBytes),
                             BE(Len(log), PosBytes)>>,
                           1, fault.step - StepPayload, fault.short)
             ELSE index)

(***************************************************************************)
(* Segment.Read                                                            *)
(***************************************************************************)
\* sort.Search(n, f): the binary search of the Go library, which returns
\* the smallest index i in [0, n] with f(i) when f is monotone, and
\* whatever the bisection lands on when it is not.
RECURSIVE Search(_, _, _, _)
Search(entries, relativeOffset, i, j) ==
    IF i >= j THEN i
    ELSE LET h == (i + j) \div 2
         IN  IF ~(entries[h + 1].RelativeOffset > relativeOffset)
             THEN Search(entries, relativeOffset, h + 1, j)
             ELSE Search(entries, relativeOffset, i, h)

findPosition(seg, offset) ==
    LET relativeOffset == offset - seg.baseOffset
        idx == Search(seg.indexEntries, relativeOffset, 0, Len(seg.indexEntries))
    IN  IF idx = 0 THEN 0 ELSE seg.indexEntries[idx].Position

\* Lines 211-240: read frames from pos until one carries the offset.
RECURSIVE ScanFor(_, _, _)
\* One iteration, f being the frame read at the file position.
ScanForStep(log, offset, f) ==
    IF f.err # NoErr THEN [err |-> f.err, Offset |-> -1, Payload |-> <<>>]
    ELSE IF f.offset = BE(offset, OffsetBytes)
    THEN [err |-> NoErr, Offset |-> offset, Payload |-> f.payload]
    ELSE IF ~IsNeg(f.offset) /\ (~Fits(f.offset) \/ Val(f.offset) > offset)
    THEN [err |-> ErrSegNotFound, Offset |-> -1, Payload |-> <<>>]
    ELSE ScanFor(log, f.next, offset)

ScanFor(log, pos, offset) == ScanForStep(log, offset, ReadFrame(log, pos))

\* Seek to a position: a negative one fails and leaves the file position
\* where the previous operation left it, which is nondeterministic here
\* only when an index entry is negative (TypeOK shows none is).
SegmentRead(seg, log, offset) ==
    IF offset < seg.baseOffset \/ offset >= seg.nextOffset
    THEN [err |-> ErrSegOutOfRange, Offset |-> -1, Payload |-> <<>>]
    ELSE ScanFor(log, findPosition(seg, offset), offset)

(***************************************************************************)
(* Partition                                                               *)
(***************************************************************************)
\* LoadSegments, lines 301-314: the base offsets parsed from the names of
\* the .log files, in ascending order.
RECURSIVE SortedSeq(_)
SortedSeq(S) ==
    IF S = {} THEN <<>>
    ELSE LET m == CHOOSE a \in S : \A b \in S : a <= b
         IN  <<m>> \o SortedSeq(S \ {m})

BaseOffsets(logs) == SortedSeq({ParseInt(name, 1, 0) : name \in DOMAIN logs})

\* LoadSegments, lines 316-329: NewSegment per base offset; the first error
\* ends the load (the segments opened so far are closed).
RECURSIVE LoadFrom(_, _, _, _, _)
LoadStep(bases, i, segs, r) ==
    IF r.err # NoErr
    THEN [err |-> r.err, segments |-> <<>>, logs |-> r.logs, indexes |-> r.indexes]
    ELSE LoadFrom(bases, i + 1, Append(segs, r.seg), r.logs, r.indexes)

LoadFrom(bases, i, segs, logs, indexes) ==
    IF i > Len(bases) THEN [err |-> NoErr, segments |-> segs, logs |-> logs,
                            indexes |-> indexes]
    ELSE LoadStep(bases, i, segs, NewSegment(logs, indexes, bases[i]))

LoadSegments(logs, indexes) == LoadFrom(BaseOffsets(logs), 1, <<>>, logs, indexes)

\* NewPartition on the partition directory (logs, indexes).
FirstSegment(first) ==
    [err |-> first.err, segments |-> IF first.err = NoErr THEN <<first.seg>> ELSE <<>>,
     logs |-> first.logs, indexes |-> first.indexes]

Loaded(l) ==
    IF l.err # NoErr THEN l
    ELSE IF Len(l.segments) # 0 THEN l
    ELSE FirstSegment(NewSegment(l.logs, l.indexes, 0))

NewPartition(logs, indexes) == Loaded(LoadSegments(logs, indexes))

\* Partition.Append(payload), with the fault its Segment.Append meets.
\* entry is the caller's LogEntry{Payload: payload}: Segment.Append gets a
\* copy, so entry.Offset is still the zero value at line 65.
\* Lines 60-65: a is what activeSegment.Append(entry) did.
AppendReturn(segs, logs, indexes, entry, rolled, a) ==
    [err |-> a.err,
     offset |-> IF a.err # NoErr THEN 0 ELSE entry.Offset,
     segments |-> [segs EXCEPT ![Len(segs)] = a.seg],
     logs |-> [logs EXCEPT ![segs[Len(segs)].file] = a.log],
     indexes |-> [indexes EXCEPT ![segs[Len(segs)].file] = a.index],
     stamped |-> a.stamped, rolled |-> rolled,
     before |-> segs[Len(segs)].nextOffset, failed |-> a.failed]

AppendTo(segs, logs, indexes, entry, fault, rolled) ==
    AppendReturn(segs, logs, indexes, entry, rolled,
                 SegmentAppend(segs[Len(segs)], logs[segs[Len(segs)].file],
                               indexes[segs[Len(segs)].file], entry.Payload, fault))

\* Lines 50-58: new is what NewSegment(p.dir, newBaseOffset) returned.
Rolled(segs, entry, fault, new) ==
    IF new.err # NoErr
    THEN [err |-> new.err, offset |-> 0, segments |-> segs, logs |-> new.logs,
          indexes |-> new.indexes, stamped |-> -1, rolled |-> FALSE, before |-> -1,
          failed |-> FALSE]
    ELSE AppendTo(Append(segs, new.seg), new.logs, new.indexes, entry, fault, TRUE)

PartitionAppendEntry(segs, logs, indexes, entry, fault) ==
    IF segs[Len(segs)].size >= SegmentMaxBytes
    THEN Rolled(segs, entry, fault,
                NewSegment(logs, indexes, segs[Len(segs)].nextOffset))
    ELSE AppendTo(segs, logs, indexes, entry, fault, FALSE)

PartitionAppend(segs, logs, indexes, payload, fault) ==
    PartitionAppendEntry(segs, logs, indexes, [Offset |-> 0, Payload |-> payload],
                         fault)

\* Partition.Read(offset): the first segment whose range holds the offset.
RECURSIVE ReadFrom(_, _, _, _)
ReadFrom(segs, logs, i, offset) ==
    IF i > Len(segs)
    THEN [err |-> ErrPartNotFound, Offset |-> -1, Payload |-> <<>>]
    ELSE IF offset >= segs[i].baseOffset /\ offset < segs[i].nextOffset
    THEN SegmentRead(segs[i], logs[segs[i].file], offset)
    ELSE ReadFrom(segs, logs, i + 1, offset)

PartitionRead(segs, logs, offset) == ReadFrom(segs, logs, 1, offset)

\* Partition.NextOffset().
PartitionNextOffset(segs) ==
    IF Len(segs) = 0 THEN 0 ELSE segs[Len(segs)].nextOffset

(***************************************************************************)
(* State                                                                   *)
(***************************************************************************)
VARIABLES
    logs,       \* the partition directory: name -> bytes of <name>.log
    indexes,    \* name -> bytes of <name>.index
    segments,   \* Partition.segments
    open,       \* the Partition is open (NewPartition succeeded, no Close yet)
    ret,        \* what the last call returned
    acked,      \* history: the successful appends, in order
    faults,     \* history: the appends that failed
    reopens,    \* history: the Close calls
    atClose,    \* history: NextOffset and the result of every Read at Close
    tamper,     \* history: what was done to the files while closed
    filePos,    \* per segment, the file offset of its log descriptor (SpecReaders)
    readers,    \* per reader, where it is in Partition.Read (SpecReaders)
    pmutex,     \* Partition.mutex: the appender holding it, 0 when free (SpecAppenders)
    appenders,  \* per appender, where it is in Partition.Append (SpecAppenders)
    order,      \* history: the Partition.Append calls, in lock order (SpecAppenders)
    topics,     \* Registry.topics: name -> Topic.Partitions (SpecRegistry)
    disk,       \* the data directory: partition directory -> its files (SpecRegistry)
    rret,       \* what the last Registry call returned (SpecRegistry)
    produced,   \* history: per (topic, partition id), the appends it received
    stream,     \* the Handler.Consume call and what it sent (SpecStream)
    mutexes,    \* per sync.RWMutex, its writer and its readers (SpecLocks)
    calls,      \* per goroutine, the call it runs and the locks it holds (SpecLocks)
    world       \* what the lock steps depend on: the topic, its segments (SpecLocks)

readVars == <<filePos, readers>>
syncVars == <<mutexes, calls, world>>
lockVars == <<pmutex, appenders, order, syncVars>>
regVars == <<topics, disk, rret, produced, stream>>
partVars == <<logs, indexes, segments, open, ret, acked, faults, reopens, atClose, tamper>>

vars == <<logs, indexes, segments, open, ret, acked, faults, reopens, atClose, tamper,
          filePos, readers, pmutex, appenders, order, topics, disk, rret, produced,
          stream, mutexes, calls, world>>

\* The offsets a client asks for.
Offsets == 0..(MaxAppends + 1)

NoRet == [op |-> "NewPartition", err |-> NoErr, offset |-> 0, payload |-> <<>>,
          stamped |-> -1, rolled |-> FALSE, before |-> -1, step |-> 0]

NoTamper == [kind |-> "none", file |-> <<>>, offset |-> -1, position |-> -1, n |-> 0]

ReadAll(segs, lg) == [o \in Offsets |-> PartitionRead(segs, lg, o)]

Fresh == NewPartition(<<>>, <<>>)

Started(f) ==
    /\ logs = f.logs
    /\ indexes = f.indexes
    /\ segments = f.segments
    /\ atClose = [nextOffset |-> 0, reads |-> ReadAll(f.segments, f.logs)]

\* The goroutines calling Partition.Read concurrently, one call each.
Readers == {"r1", "r2"}

\* A reader outside Partition.Read.  Inside, pc names the next read of
\* Segment.Read's loop ("offset", "length", "crc", "payload"); seg is the
\* segment Partition.Read chose, entryOffset and length are the locals of
\* the loop; at "done" err, Offset and Payload are what the call returned.
IdleReader == [pc |-> "idle", target |-> -1, seg |-> 0, entryOffset |-> 0,
               length |-> 0, err |-> NoErr, Offset |-> -1, Payload |-> <<>>]

\* The goroutines calling Partition.Append concurrently, one call each.
Appenders == 1..MaxAppends

\* An appender before its call: pc is "start", then "locked" while it holds
\* Partition.mutex, then "done" with what the call returned.
IdleAppender == [pc |-> "start", err |-> NoErr, offset |-> -1, stamped |-> -1,
                 payload |-> <<>>]

\* No Registry call yet: NewRegistry made an empty map.  seq counts the
\* calls, failures the appends that failed, restarts the process restarts;
\* name, n and id are the arguments of the call; dropped are the Partition
\* objects a failed CreateTopic let go of; partition and offset are what
\* Produce returned.
NoRRet == [op |-> "NewRegistry", seq |-> 0, failures |-> 0, restarts |-> 0,
           name |-> "", n |-> 0, id |-> 0, err |-> NoErr, opened |-> 0,
           dropped |-> <<>>, dir |-> <<>>, partition |-> 0, offset |-> 0,
           payload |-> <<>>, stamped |-> -1]

\* No Handler.Consume call yet.  offset is req.Offset, sent are the
\* responses sent on the stream, err is what Handler.Consume returned,
\* cancelled says that the client cancelled, tail that an iteration found
\* currentOffset equal to the partition's next offset; offsets is
\* Consumer.offsets.
IdleStream == [status |-> "idle", topic |-> "", partition |-> 0, offset |-> 0,
               currentOffset |-> 0, sent |-> <<>>, err |-> NoErr, cancelled |-> FALSE,
               tail |-> FALSE, offsets |-> <<>>]

\* Goroutines calling into the registry and the partitions at once, and the
\* calls they make between them.
MaxThreads == 3
MaxLockCalls == 3
\* The segments a partition grows to.
MaxSegments == 2

Threads == 1..MaxThreads

\* A goroutine between calls.  prog are the steps left of the call it runs,
\* held the mutexes it holds or is acquiring, oldest first.
IdleCall == [op |-> "", prog |-> <<>>, held |-> <<>>]

\* The zero sync.RWMutex: no writer, no reader.
FreeMutex == [w |-> 0, r |-> {}]

\* No topic registered, no partition directory on disk, no call made.
\* parts is len(topic.Partitions), nseg the number of segments per
\* partition id.
NewWorld == [registered |-> FALSE, parts |-> 0, nseg |-> <<>>, ncalls |-> 0]

\* A registry's first CreateTopic: NewPartition on a directory that does
\* not exist yet.
Init ==
    /\ Started(Fresh)
    /\ open = TRUE
    /\ ret = NoRet
    /\ acked = <<>>
    /\ faults = 0
    /\ reopens = 0
    /\ tamper = NoTamper
    /\ filePos = <<0>>
    /\ readers = [r \in Readers |-> IdleReader]
    /\ pmutex = 0
    /\ appenders = [a \in Appenders |-> IdleAppender]
    /\ order = <<>>
    /\ topics = <<>>
    /\ disk = <<>>
    /\ rret = NoRRet
    /\ produced = <<>>
    /\ stream = IdleStream
    /\ mutexes = <<>>
    /\ calls = [t \in Threads |-> IdleCall]
    /\ world = NewWorld

(***************************************************************************)
(* Operations                                                              *)
(***************************************************************************)
\* The faults a Segment.Append of this payload can meet: a write of no
\* bytes cannot fail, and a failing write is short by at least one byte.
Faults(payload) ==
    LET width == [k \in StepOffset..StepIndexPos |->
                    CASE k = StepOffset -> OffsetBytes
                      [] k = StepLength -> LengthBytes
                      [] k = StepCrc -> CrcBytes
                      [] k = StepPayload -> Len(payload)
                      [] k = StepIndexRel -> RelBytes
                      [] k = StepIndexPos -> PosBytes]
    IN  {[step |-> k, short |-> n] :
            k \in {j \in StepOffset..StepIndexPos : width[j] > 0},
            n \in {0, MaxShort}} 
        \cap {f \in [step : StepOffset..StepIndexPos, short : 0..MaxShort] :
                f.short < width[f.step]}

AppendResult(r, payload, fault) ==
    [op |-> "Append", err |-> r.err, offset |-> r.offset, payload |-> payload,
     stamped |-> r.stamped, rolled |-> r.rolled, before |-> r.before,
     step |-> IF r.failed THEN fault.step ELSE 0]

\* Partition.Append(payload) whose writes all go through.  It can still
\* return an error: the NewSegment of a roll runs recover.
\* The state after a Partition.Append that returned r.  ret.step is the
\* write of Segment.Append that failed, 0 when none did.
Returned(r, payload, fault) ==
    /\ logs' = r.logs
    /\ indexes' = r.indexes
    /\ segments' = r.segments
    /\ ret' = AppendResult(r, payload, fault)
    /\ acked' = IF r.err = NoErr
                THEN Append(acked, [offset |-> r.offset, stamped |-> r.stamped,
                                    payload |-> payload])
                ELSE acked
    /\ faults' = IF r.err = NoErr THEN faults ELSE faults + 1
    /\ UNCHANGED <<open, reopens, atClose, tamper>>

AppendOk(payload) ==
    /\ open
    /\ Len(acked) + faults < MaxAppends
    /\ Returned(PartitionAppend(segments, logs, indexes, payload, NoFault), payload,
                NoFault)
    /\ UNCHANGED <<readVars, lockVars, regVars>>

\* Partition.Append(payload) one of whose writes fails.
Failed(r, payload, fault) == r.failed /\ Returned(r, payload, fault)

AppendFail(payload, fault) ==
    /\ open
    /\ Len(acked) + faults < MaxAppends
    /\ faults < MaxFaults
    /\ Failed(PartitionAppend(segments, logs, indexes, payload, fault), payload, fault)
    /\ UNCHANGED <<readVars, lockVars, regVars>>

\* Partition.Read(offset).
ReadResult(r, offset) ==
    [op |-> "Read", err |-> r.err, offset |-> r.Offset, payload |-> r.Payload,
     stamped |-> offset, rolled |-> FALSE, before |-> -1, step |-> 0]

Read(offset) ==
        /\ open
        /\ ret' = ReadResult(PartitionRead(segments, logs, offset), offset)
        /\ UNCHANGED <<logs, indexes, segments, open, acked, faults, reopens,
                       atClose, tamper>>
        /\ UNCHANGED <<readVars, lockVars, regVars>>

\* Partition.NextOffset().
NextOffset ==
    /\ open
    /\ ret' = [op |-> "NextOffset", err |-> NoErr,
               offset |-> PartitionNextOffset(segments), payload |-> <<>>,
               stamped |-> -1, rolled |-> FALSE, before |-> -1, step |-> 0]
    /\ UNCHANGED <<logs, indexes, segments, open, acked, faults, reopens,
                   atClose, tamper>>
    /\ UNCHANGED <<readVars, lockVars, regVars>>

\* Partition.Close(): every segment syncs and closes its files.
Close ==
    /\ open
    /\ reopens < MaxReopens
    /\ open' = FALSE
    /\ reopens' = reopens + 1
    /\ atClose' = [nextOffset |-> PartitionNextOffset(segments),
                   reads |-> ReadAll(segments, logs)]
    /\ ret' = [NoRet EXCEPT !.op = "Close"]
    /\ tamper' = NoTamper
    /\ UNCHANGED <<logs, indexes, segments, acked, faults>>
    /\ UNCHANGED <<readVars, lockVars, regVars>>

\* NewPartition on the directory of the closed partition (a restart).
Reopened(r) ==
    /\ logs' = r.logs
    /\ indexes' = r.indexes
    /\ segments' = IF r.err = NoErr THEN r.segments ELSE segments
    /\ open' = (r.err = NoErr)
    /\ ret' = [NoRet EXCEPT !.err = r.err]
    /\ UNCHANGED <<acked, faults, reopens, atClose, tamper>>

Reopen ==
    /\ ~open
    /\ ret.op # "NewPartition"
    /\ Reopened(NewPartition(logs, indexes))
    /\ UNCHANGED <<readVars, lockVars, regVars>>

Next ==
    \/ \E payload \in Payloads : AppendOk(payload)
    \/ \E payload \in Payloads : \E fault \in Faults(payload) : AppendFail(payload, fault)
    \/ \E offset \in Offsets : Read(offset)
    \/ NextOffset
    \/ Close
    \/ Reopen

Spec == Init /\ [][Next]_vars

(***************************************************************************)
(* The partition without write failures                                    *)
(***************************************************************************)
NextNoFault ==
    \/ \E payload \in Payloads : AppendOk(payload)
    \/ \E offset \in Offsets : Read(offset)
    \/ NextOffset
    \/ Close
    \/ Reopen

SpecNoFault == Init /\ [][NextNoFault]_vars

(***************************************************************************)
(* Damage to the files of a closed partition                               *)
(***************************************************************************)
\* The positions in a log at which a well-formed frame whose CRC matches
\* starts, walking from byte 0 as recover does.
RECURSIVE FramesFrom(_, _)
FrameStep(log, pos, f) ==
    IF f.err # NoErr \/ f.crc # ChecksumIEEE(f.payload) THEN {}
    ELSE {pos} \cup FramesFrom(log, f.next)

FramesFrom(log, pos) == FrameStep(log, pos, ReadFrame(log, pos))

\* The bits of a payload byte that may get flipped.
FlipBits == {0, 7}

FlipBit(byte, k) == IF Bit(byte, k) THEN byte - Pow(2, k) ELSE byte + Pow(2, k)

Header == OffsetBytes + LengthBytes + CrcBytes

\* One bit of the payload of the record at `position` of a log is flipped.
Flipped(name, position, f, i, k) ==
    /\ i <= Len(f.payload)
    /\ logs' = [logs EXCEPT ![name][position + Header + i] = FlipBit(@, k)]
    /\ tamper' = [kind |-> "flip", file |-> name, offset |-> OffsetValue(f.offset),
                  position |-> position, n |-> i]

FlipPayloadBit(name, position, i, k) ==
    /\ ~open
    /\ ret.op = "Close"
    /\ tamper = NoTamper
    /\ position \in FramesFrom(logs[name], 0)
    /\ Flipped(name, position, ReadFrame(logs[name], position), i, k)
    /\ UNCHANGED <<indexes, segments, open, ret, acked, faults, reopens, atClose>>
    /\ UNCHANGED <<readVars, lockVars, regVars>>

\* The log file of the active segment: the one with the greatest base offset.
ActiveFile(files) ==
    CHOOSE name \in DOMAIN files :
        \A other \in DOMAIN files : ParseInt(other, 1, 0) <= ParseInt(name, 1, 0)

\* How many zero bytes are appended to the active log file.
MaxZeros == 17

AppendZeros(n) ==
    /\ ~open
    /\ ret.op = "Close"
    /\ tamper = NoTamper
    /\ logs' = [logs EXCEPT ![ActiveFile(logs)] = @ \o [j \in 1..n |-> 0]]
    /\ tamper' = [kind |-> "zeros", file |-> ActiveFile(logs), offset |-> -1,
                  position |-> Len(logs[ActiveFile(logs)]), n |-> n]
    /\ UNCHANGED <<indexes, segments, open, ret, acked, faults, reopens, atClose>>
    /\ UNCHANGED <<readVars, lockVars, regVars>>

FlipAny ==
    \E name \in DOMAIN logs : \E position \in 0..Len(logs[name]) :
        \E p \in Payloads : \E i \in 1..Len(p) : \E k \in FlipBits :
            FlipPayloadBit(name, position, i, k)

\* The partition without write failures, and its files damaged while it is
\* closed.
NextCorrupt ==
    \/ \E payload \in Payloads : AppendOk(payload)
    \/ \E offset \in Offsets : Read(offset)
    \/ NextOffset
    \/ Close
    \/ Reopen
    \/ FlipAny
    \/ \E n \in 1..MaxZeros : AppendZeros(n)

SpecCorrupt == Init /\ [][NextCorrupt]_vars

\* The shape of the state under Spec and SpecNoFault: offsets stay small
\* (nothing is clamped) and index positions are never negative.
TypeOK ==
    /\ \A i \in 1..Len(segments) :
        /\ segments[i].nextOffset \in 0..(MaxAppends + 1)
        /\ segments[i].baseOffset \in 0..(MaxAppends + 1)
        /\ segments[i].file \in DOMAIN logs
        /\ \A j \in 1..Len(segments[i].indexEntries) :
            segments[i].indexEntries[j].Position >= 0
    /\ DOMAIN logs = DOMAIN indexes
    /\ open => Len(segments) > 0

(***************************************************************************)
(* What the claims speak of                                                *)
(***************************************************************************)
\* The errors the code returns for an offset outside the known range of a
\* segment (Segment.Read) or of the partition (Partition.Read).
OutOfRange(err) == err \in {ErrSegOutOfRange, ErrPartNotFound}

\* Read(offset) on the open partition.
ReadNow(offset) == PartitionRead(segments, logs, offset)

\* Read(offset) succeeds and returns that offset with that payload.
Reads(offset, payload) ==
    /\ ReadNow(offset).err = NoErr
    /\ ReadNow(offset).Offset = offset
    /\ ReadNow(offset).Payload = payload

\* The state is the one a successful Partition.Append has just returned to.
JustAppended == ret.op = "Append" /\ ret.err = NoErr

\* The state is the one a NewPartition following a Close has just returned to.
JustReopened == ret.op = "NewPartition" /\ reopens > 0

\* C1: the k-th successful Partition.Append returns offset k-1, so the
\* returned offsets start at 0 and strictly increase.
C1_OffsetsIncrease == \A k \in 1..Len(acked) : acked[k].offset = k - 1

\* C2: right after a successful Partition.Append(payload) that returned
\* offset o, Read(o) returns a record with Offset o and that payload.
C2_RoundTrip == JustAppended => Reads(ret.offset, ret.payload)

\* C3: every payload whose append succeeded is returned by Read of the
\* offset it was stored at, in every later state of the open partition.
C3_Immutable ==
    open => \A k \in 1..Len(acked) : Reads(acked[k].stamped, acked[k].payload)

\* C4: with K appends succeeded, Read(o) succeeds for every o in 0..K-1
\* and Read(K) fails with an out-of-range error.
C4_Density ==
    open => /\ \A o \in 0..(Len(acked) - 1) : ReadNow(o).err = NoErr
            /\ OutOfRange(ReadNow(Len(acked)).err)

\* An append step: one more Partition.Append has returned.
AppendStep == Len(acked') + faults' = Len(acked) + faults + 1

\* C5: a successful Partition.Append stamps its record with the NextOffset
\* of before the call and leaves NextOffset one higher (whether or not it
\* rolled); a failed one leaves NextOffset as it was.
C5_NextOffset ==
    [][AppendStep =>
        IF ret'.err = NoErr
        THEN /\ ret'.stamped = PartitionNextOffset(segments)
             /\ PartitionNextOffset(segments') = PartitionNextOffset(segments) + 1
        ELSE PartitionNextOffset(segments') = PartitionNextOffset(segments)]_vars

\* C6: reopening a cleanly closed partition whose files nobody touched
\* succeeds, with the NextOffset and the result of every Read as they were
\* at the close.
C6_Reopen ==
    JustReopened =>
        /\ ret.err = NoErr
        /\ PartitionNextOffset(segments) = atClose.nextOffset
        /\ ReadAll(segments, logs) = atClose.reads

\* C7: after one bit of the payload of record k was flipped in the files
\* of a cleanly closed partition holding records 0..n-1, reopening succeeds
\* with NextOffset = k, Read of 0..k-1 as before the close, Read(k) out of
\* range, and the log cut at the byte where record k started.
C7_CrcTruncation ==
    (JustReopened /\ tamper.kind = "flip") =>
        /\ ret.err = NoErr
        /\ PartitionNextOffset(segments) = tamper.offset
        /\ \A o \in 0..(tamper.offset - 1) : ReadNow(o) = atClose.reads[o]
        /\ OutOfRange(ReadNow(tamper.offset).err)
        /\ Len(logs[tamper.file]) = tamper.position

\* C8: after n >= 1 zero bytes were appended to the active log file of a
\* cleanly closed partition, reopening succeeds with the NextOffset and
\* the result of every Read as they were at the close.
C8_ZeroTail ==
    (JustReopened /\ tamper.kind = "zeros") =>
        /\ ret.err = NoErr
        /\ PartitionNextOffset(segments) = atClose.nextOffset
        /\ ReadAll(segments, logs) = atClose.reads

\* C9: reopening never fails because of what a failed append left in the
\* log or in the index; the partial record is cut off and NextOffset is
\* the one of before the close.
C9_PartialTail ==
    JustReopened =>
        /\ ret.err = NoErr
        /\ PartitionNextOffset(segments) = atClose.nextOffset
        /\ \A name \in DOMAIN logs :
            ReadFrame(logs[name], 0).err \in {NoErr, EOF}

\* C10: when Segment.Append fails at a write step, Partition.Append returns
\* the error and the segment's nextOffset is what it was when Segment.Append
\* was called.
C10_FailedAppend ==
    (ret.op = "Append" /\ ret.step # 0) =>
        /\ ret.err # NoErr
        /\ segments[Len(segments)].nextOffset = ret.before

\* A Partition.Append has rolled the segment and then failed at the second
\* field of the index entry, the last write of Segment.Append.
C10_Witness ==
    ret.op = "Append" /\ ret.step = StepIndexPos /\ ret.rolled /\ ret.err # NoErr

\* The offsets of the records in a log file, in file order: the frames
\* that parse completely, walking from a position as recover and
\* Segment.Read do.
RECURSIVE RecordOffsets(_, _)
RecordStep(log, f) ==
    IF f.err # NoErr THEN <<>>
    ELSE <<OffsetValue(f.offset)>> \o RecordOffsets(log, f.next)

RecordOffsets(log, pos) == RecordStep(log, ReadFrame(log, pos))

\* C19: the segment list of an open partition is non-empty, its first base
\* offset is 0, base offsets strictly increase, and every segment starts at
\* the next offset of the one before it, so the ranges [baseOffset,
\* nextOffset) are disjoint and cover exactly [0, Partition.NextOffset()).
C19_SegmentCoverage ==
    open =>
        /\ Len(segments) > 0
        /\ segments[1].baseOffset = 0
        /\ \A i \in 1..Len(segments) : segments[i].baseOffset <= segments[i].nextOffset
        /\ \A i \in 2..Len(segments) :
            /\ segments[i - 1].baseOffset < segments[i].baseOffset
            /\ segments[i].baseOffset = segments[i - 1].nextOffset

\* C20: between appends, the records in the log file of every segment of the
\* open partition carry the offsets baseOffset, baseOffset + 1, ...,
\* nextOffset - 1 in that order (none when nextOffset = baseOffset), also
\* after an append that failed at a write step.
C20_LogInvariant ==
    open =>
        \A i \in 1..Len(segments) :
            RecordOffsets(logs[segments[i].file], 0) =
                [k \in 1..(segments[i].nextOffset - segments[i].baseOffset) |->
                    segments[i].baseOffset + k - 1]

(***************************************************************************)
(* Concurrent readers of one partition                                     *)
(*                                                                         *)
(* Partition.Read and Segment.Read take their mutexes in shared mode, so   *)
(* several readers run Segment.Read at once.  They all use the segment's   *)
(* one *os.File: Seek sets, and every read advances, the one file offset   *)
(* of that descriptor.  Each Seek and each read is one step.  An append    *)
(* needs Partition.mutex exclusively and runs only between reads.          *)
(***************************************************************************)
\* Partition.Read, lines 73-77: the first segment holding the offset, 0
\* when there is none.
RECURSIVE FindSegment(_, _, _)
FindSegment(segs, i, offset) ==
    IF i > Len(segs) THEN 0
    ELSE IF offset >= segs[i].baseOffset /\ offset < segs[i].nextOffset THEN i
    ELSE FindSegment(segs, i + 1, offset)

\* Partition.Read up to Segment.Read's Seek (segment.go:203-208), i being
\* the segment found.
Begun(r, offset, i) ==
    IF i = 0
    THEN /\ readers' = [readers EXCEPT ![r] =
                            [IdleReader EXCEPT !.pc = "done", !.target = offset,
                                               !.err = ErrPartNotFound]]
         /\ UNCHANGED filePos
    ELSE /\ readers' = [readers EXCEPT ![r] =
                            [IdleReader EXCEPT !.pc = "offset", !.target = offset,
                                               !.seg = i]]
         /\ filePos' = [filePos EXCEPT ![i] = findPosition(segments[i], offset)]

ReadBegin(r, offset) ==
    /\ open
    /\ readers[r].pc = "idle"
    /\ Begun(r, offset, FindSegment(segments, 1, offset))
    /\ UNCHANGED <<partVars, lockVars, regVars>>

\* How many bytes the reader's next read asks for.
Width(rd) ==
    CASE rd.pc = "offset" -> OffsetBytes
      [] rd.pc = "length" -> LengthBytes
      [] rd.pc = "crc" -> CrcBytes
      [] rd.pc = "payload" -> rd.length

\* The reader after its read returned f (segment.go:216-239).
AfterField(rd, f) ==
    IF f.err # NoErr THEN [rd EXCEPT !.pc = "done", !.err = f.err]
    ELSE CASE rd.pc = "offset" ->
                [rd EXCEPT !.pc = "length", !.entryOffset = OffsetValue(f.bytes)]
           [] rd.pc = "length" ->
                [rd EXCEPT !.pc = "crc", !.length = Int32Value(f.bytes)]
           [] rd.pc = "crc" -> [rd EXCEPT !.pc = "payload"]
           [] rd.pc = "payload" ->
                IF rd.entryOffset = rd.target
                THEN [rd EXCEPT !.pc = "done", !.Offset = rd.entryOffset,
                                !.Payload = f.bytes]
                ELSE IF rd.entryOffset > rd.target
                THEN [rd EXCEPT !.pc = "done", !.err = ErrSegNotFound]
                ELSE [rd EXCEPT !.pc = "offset"]

\* One read of n bytes at the descriptor's offset pos: the offset moves past
\* the bytes read, to the end of the file when they run out.
Fielded(r, rd, log, pos, f, n) ==
    /\ filePos' = [filePos EXCEPT ![rd.seg] =
                      IF f.err = NoErr THEN pos + n
                      ELSE IF pos > Len(log) THEN pos ELSE Len(log)]
    /\ readers' = [readers EXCEPT ![r] = AfterField(rd, f)]

\* make([]byte, length) panics on a negative length.
Stepped(r, rd, log, pos) ==
    IF rd.pc = "payload" /\ rd.length < 0
    THEN /\ readers' = [readers EXCEPT ![r] = [rd EXCEPT !.pc = "done",
                                                         !.err = ErrPanic]]
         /\ UNCHANGED filePos
    ELSE Fielded(r, rd, log, pos, ReadFull(log, pos, Width(rd)), Width(rd))

ReadStep(r) ==
    /\ readers[r].pc \in {"offset", "length", "crc", "payload"}
    /\ Stepped(r, readers[r], logs[segments[readers[r].seg].file],
               filePos[readers[r].seg])
    /\ UNCHANGED <<partVars, lockVars, regVars>>

\* Segment.Append seeks to the end of the log (segment.go:157) and recover
\* of a new segment reads its log to the end.
FilePosAfter(r) ==
    [i \in 1..Len(r.segments) |->
        IF i = Len(r.segments) THEN Len(r.logs[r.segments[i].file]) ELSE filePos[i]]

Stored(r, payload) ==
    /\ Returned(r, payload, NoFault)
    /\ filePos' = FilePosAfter(r)

\* Partition.Append while no reader holds the locks.
AppendBetweenReads(payload) ==
    /\ open
    /\ \A r \in Readers : readers[r].pc \in {"idle", "done"}
    /\ Len(acked) + faults < MaxAppends
    /\ Stored(PartitionAppend(segments, logs, indexes, payload, NoFault), payload)
    /\ UNCHANGED <<readers, lockVars, regVars>>

NextReaders ==
    \/ \E payload \in Payloads : AppendBetweenReads(payload)
    \/ \E r \in Readers : \E offset \in Offsets : ReadBegin(r, offset)
    \/ \E r \in Readers : ReadStep(r)

SpecReaders == Init /\ [][NextReaders]_vars

\* C11: a Read of an offset that a segment holds returns, whatever the
\* other readers do meanwhile, the record with that offset and the payload
\* appended at that offset.
C11_ConcurrentReads ==
    \A r \in Readers :
        (readers[r].pc = "done" /\ readers[r].seg # 0) =>
            /\ readers[r].err = NoErr
            /\ readers[r].Offset = readers[r].target
            /\ \E k \in 1..Len(acked) :
                /\ acked[k].stamped = readers[r].target
                /\ acked[k].payload = readers[r].Payload

(***************************************************************************)
(* Concurrent appenders of one partition                                   *)
(*                                                                         *)
(* Partition.Append holds Partition.mutex exclusively from its first line  *)
(* to its return (part_000:44-45), and nothing else writes the partition:  *)
(* what it does between Lock and Unlock is one step.                       *)
(***************************************************************************)
\* p.mutex.Lock() returns to appender a.
LockAppend(a) ==
    /\ open
    /\ pmutex = 0
    /\ appenders[a].pc = "start"
    /\ pmutex' = a
    /\ appenders' = [appenders EXCEPT ![a].pc = "locked"]
    /\ order' = Append(order, a)
    /\ UNCHANGED <<partVars, readVars, regVars, syncVars>>

\* Lines 47-65 and the deferred Unlock, r being what the lines computed.
Unlocked(a, r, payload, fault) ==
    /\ Returned(r, payload, fault)
    /\ appenders' = [appenders EXCEPT ![a] =
                        [pc |-> "done", err |-> r.err, offset |-> r.offset,
                         stamped |-> r.stamped, payload |-> payload]]
    /\ pmutex' = 0
    /\ UNCHANGED <<order, readVars, regVars, syncVars>>

\* The body of Partition.Append, all writes going through.
AppendLocked(a, payload) ==
    /\ pmutex = a
    /\ appenders[a].pc = "locked"
    /\ Unlocked(a, PartitionAppend(segments, logs, indexes, payload, NoFault),
                payload, NoFault)

FailedLocked(a, r, payload, fault) == r.failed /\ Unlocked(a, r, payload, fault)

\* The body of Partition.Append, one of its writes failing.
AppendLockedFail(a, payload, fault) ==
    /\ pmutex = a
    /\ appenders[a].pc = "locked"
    /\ faults < MaxFaults
    /\ FailedLocked(a, PartitionAppend(segments, logs, indexes, payload, fault),
                    payload, fault)

NextAppenders ==
    \/ \E a \in Appenders : LockAppend(a)
    \/ \E a \in Appenders : \E payload \in Payloads : AppendLocked(a, payload)
    \/ \E a \in Appenders : \E payload \in Payloads : \E fault \in Faults(payload) :
            AppendLockedFail(a, payload, fault)

SpecAppenders == Init /\ [][NextAppenders]_vars

\* The offsets of the records of all log files, segment after segment.
RECURSIVE PartitionRecordOffsets(_, _, _)
PartitionRecordOffsets(segs, lg, i) ==
    IF i > Len(segs) THEN <<>>
    ELSE RecordOffsets(lg[segs[i].file], 0) \o PartitionRecordOffsets(segs, lg, i + 1)

StrictlyIncreasing(s) == \A x \in 1..Len(s) : \A y \in 1..Len(s) : x < y => s[x] < s[y]

\* The offset stamped by the i-th call to take the lock, -1 while it runs
\* and when it failed.
StampedInLockOrder(i) ==
    IF i <= Len(order) /\ appenders[order[i]].pc = "done"
                       /\ appenders[order[i]].err = NoErr
    THEN appenders[order[i]].stamped
    ELSE -1

\* C12: the appends stamp their records in the order they took the
\* partition lock: no two calls stamp the same offset, the successful ones
\* stamp 0, 1, 2, ... without a skip, and the records lie in the log files
\* in strictly increasing offset order, across rolls too.
C12_LockOrder ==
    /\ \A i \in 1..Len(order) : \A j \in 1..Len(order) :
        (i < j /\ StampedInLockOrder(i) >= 0 /\ StampedInLockOrder(j) >= 0) =>
            StampedInLockOrder(i) < StampedInLockOrder(j)
    /\ \A k \in 1..Len(acked) : acked[k].stamped = k - 1
    /\ StrictlyIncreasing(PartitionRecordOffsets(segments, logs, 1))

(***************************************************************************)
(* Registry, Producer, Consumer                                            *)
(***************************************************************************)
\* Registry calls per behaviour.
MaxCalls == 3
\* The greatest partition count a CreateTopic asks for.
MaxPartitions == 2

\* Topic names: single path elements, so that filepath.Join maps distinct
\* (topic, id) pairs to distinct directories.
TopicNames == {"t", "u"}
\* numPartitions of a CreateTopic request, an int32.
Counts == (-1)..MaxPartitions
\* partitionID of a request, an int32.
PartitionIds == (-1)..MaxPartitions

\* Registry.CreateTopic: fmt.Errorf("topic %s already exists").
ErrTopicExists == "topic already exists"
\* Registry.GetTopic: fmt.Errorf("topic %s not found").
ErrTopicNotFound == "topic not found"
\* Registry.GetPartition: fmt.Errorf("partition %d not found in topic %s").
ErrPartitionNotFound == "partition not found in topic"
\* os.ReadDir of the partition directory fails, not with IsNotExist.
ErrIO == "input/output error"

\* A variant of PartitionDir that leaves the id out of the path.
PartitionDirShared(name, id) == <<name, 0>>

\* NewPartition, line 17: filepath.Join(dataDir, topic, "partition<id>").
PartitionDir(name, id) == <<name, id>>

\* The files of a partition directory; none when it does not exist.
DirFiles(d, dir) ==
    IF dir \in DOMAIN d THEN d[dir] ELSE [logs |-> <<>>, indexes |-> <<>>]

NoPartition == [dir |-> <<>>, segments |-> <<>>, open |-> FALSE]

\* NewPartition(dataDir, name, id), r being what LoadSegments and the first
\* NewSegment did to the directory.
OpenedPartition(d, dir, r) ==
    [err |-> r.err,
     disk |-> (dir :> [logs |-> r.logs, indexes |-> r.indexes]) @@ d,
     part |-> IF r.err = NoErr
              THEN [dir |-> dir, segments |-> r.segments, open |-> TRUE]
              ELSE NoPartition]

OpenPartition(d, dir, ioErr) ==
    IF ioErr THEN [err |-> ErrIO, disk |-> d, part |-> NoPartition]
    ELSE OpenedPartition(d, dir,
                         NewPartition(DirFiles(d, dir).logs, DirFiles(d, dir).indexes))

\* Partition.Close() on a Partition object.
ClosePartition(part) == [part EXCEPT !.open = FALSE]

\* CreateTopic, lines 99-109: i counts from 0; parts are topic.Partitions
\* filled so far.  On an error the partitions 0..i-1 are closed; dropped are
\* those objects as the call leaves them.
RECURSIVE CreateFrom(_, _, _, _, _, _)
\* A variant of CreateStep whose clean-up loop stops one partition early
\* (j < i - 1), leaving partition i-1 open.
CreateStepLeak(d, name, n, i, parts, failAt, r) ==
    IF r.err # NoErr
    THEN [err |-> r.err, disk |-> r.disk, parts |-> <<>>, opened |-> i,
          dropped |-> [j \in 1..i |-> IF j < i THEN ClosePartition(parts[j])
                                      ELSE parts[j]]]
    ELSE CreateFrom(r.disk, name, n, i + 1, Append(parts, r.part), failAt)

CreateStep(d, name, n, i, parts, failAt, r) ==
    IF r.err # NoErr
    THEN [err |-> r.err, disk |-> r.disk, parts |-> <<>>, opened |-> i,
          dropped |-> [j \in 1..i |-> ClosePartition(parts[j])]]
    ELSE CreateFrom(r.disk, name, n, i + 1, Append(parts, r.part), failAt)

CreateFrom(d, name, n, i, parts, failAt) ==
    IF i >= n
    THEN [err |-> NoErr, disk |-> d, parts |-> parts, opened |-> i, dropped |-> <<>>]
    ELSE CreateStep(d, name, n, i, parts, failAt,
                    OpenPartition(d, PartitionDir(name, i), i = failAt))

\* A variant of CreateTopicResult without the test of line 90: a registered
\* name is created again.
CreateTopicResultNoCheck(tp, d, name, n, failAt) ==
    IF n < 0
    THEN [err |-> ErrPanic, disk |-> d, parts |-> <<>>, opened |-> 0, dropped |-> <<>>]
    ELSE CreateFrom(d, name, n, 0, <<>>, failAt)

\* Registry.CreateTopic(name, numPartitions); failAt is the partition whose
\* directory cannot be read, -1 for none.
CreateTopicResult(tp, d, name, n, failAt) ==
    IF name \in DOMAIN tp
    THEN [err |-> ErrTopicExists, disk |-> d, parts |-> <<>>, opened |-> 0,
          dropped |-> <<>>]
    ELSE IF n < 0
    THEN [err |-> ErrPanic, disk |-> d, parts |-> <<>>, opened |-> 0, dropped |-> <<>>]
    ELSE CreateFrom(d, name, n, 0, <<>>, failAt)

\* Registry.GetTopic(name).
GetTopic(tp, name) ==
    IF name \in DOMAIN tp THEN [err |-> NoErr, Partitions |-> tp[name]]
    ELSE [err |-> ErrTopicNotFound, Partitions |-> <<>>]

\* A variant of GotPartition whose bound test is partitionID > len: the
\* index expression panics for partitionID = len.
GotPartitionOffByOne(t, partitionID) ==
    IF t.err # NoErr THEN [err |-> t.err, part |-> NoPartition]
    ELSE IF partitionID < 0 \/ partitionID > Len(t.Partitions)
    THEN [err |-> ErrPartitionNotFound, part |-> NoPartition]
    ELSE IF partitionID = Len(t.Partitions)
    THEN [err |-> ErrPanic, part |-> NoPartition]
    ELSE [err |-> NoErr, part |-> t.Partitions[partitionID + 1]]

\* Registry.GetPartition(topic, partitionID): Partitions[partitionID] is the
\* element partitionID + 1 of the sequence.
GotPartition(t, partitionID) ==
    IF t.err # NoErr THEN [err |-> t.err, part |-> NoPartition]
    ELSE IF partitionID < 0 \/ partitionID >= Len(t.Partitions)
    THEN [err |-> ErrPartitionNotFound, part |-> NoPartition]
    ELSE [err |-> NoErr, part |-> t.Partitions[partitionID + 1]]

GetPartition(tp, name, partitionID) == GotPartition(GetTopic(tp, name), partitionID)


\* A panic ends the process: no call is served after it.
Alive == rret.err # ErrPanic

\* What every Registry call leaves in rret.
Called(op, name, n, id, err) ==
    [NoRRet EXCEPT !.op = op, !.seq = rret.seq + 1, !.failures = rret.failures,
                   !.restarts = rret.restarts, !.name = name, !.n = n, !.id = id,
                   !.err = err]

\* Registry.CreateTopic returned c.
Created(name, n, failAt, c) ==
    /\ topics' = IF c.err = NoErr THEN (name :> c.parts) @@ topics ELSE topics
    /\ disk' = c.disk
    /\ rret' = [Called("CreateTopic", name, n, failAt, c.err)
                    EXCEPT !.opened = c.opened, !.dropped = c.dropped]

CreateTopic(name, n, failAt) ==
    /\ Alive
    /\ rret.seq < MaxCalls
    /\ failAt >= 0 => (name \notin DOMAIN topics /\ failAt < n)
    /\ Created(name, n, failAt, CreateTopicResult(topics, disk, name, n, failAt))
    /\ UNCHANGED <<partVars, readVars, lockVars, produced, stream>>

\* Registry.GetTopic(name); n is len(topic.Partitions).
LookupTopic(name) ==
    /\ Alive
    /\ rret.seq < MaxCalls
    /\ rret' = Called("GetTopic", name, Len(GetTopic(topics, name).Partitions), 0,
                      GetTopic(topics, name).err)
    /\ UNCHANGED <<partVars, readVars, lockVars, topics, disk, produced, stream>>

\* Registry.GetPartition(name, id); dir is the directory of the Partition
\* returned.
LookupPartition(name, id) ==
    /\ Alive
    /\ rret.seq < MaxCalls
    /\ rret' = [Called("GetPartition", name, 0, id, GetPartition(topics, name, id).err)
                    EXCEPT !.dir = GetPartition(topics, name, id).part.dir]
    /\ UNCHANGED <<partVars, readVars, lockVars, topics, disk, produced, stream>>

\* The appends partition id of topic name received.
ProducedAt(name, id) ==
    IF <<name, id>> \in DOMAIN produced THEN produced[<<name, id>>] ELSE <<>>

\* Producer.Produce, lines 23-28: part.Append(payload) did a.
Produced(name, id, payload, part, a) ==
    /\ topics' = [topics EXCEPT ![name][id + 1].segments = a.segments]
    /\ disk' = [disk EXCEPT ![part.dir] = [logs |-> a.logs, indexes |-> a.indexes]]
    /\ produced' = (<<name, id>> :> Append(ProducedAt(name, id),
                                           [payload |-> payload,
                                            stamped |-> a.stamped,
                                            err |-> a.err])) @@ produced
    /\ rret' = [Called("Produce", name, 0, id, a.err)
                    EXCEPT !.partition = IF a.err = NoErr THEN id ELSE 0,
                           !.offset = a.offset, !.payload = payload,
                           !.stamped = a.stamped, !.dir = part.dir,
                           !.failures = IF a.err = NoErr THEN @ ELSE @ + 1]


\* Producer.Produce(topic, partition, payload), g being what GetPartition
\* returned (part_001:18-21).
ProduceTo(name, id, payload, fault, g) ==
    IF g.err # NoErr
    THEN /\ rret' = Called("Produce", name, 0, id, g.err)
         /\ UNCHANGED <<topics, disk, produced>>
    ELSE Produced(name, id, payload, g.part,
                  PartitionAppend(g.part.segments, disk[g.part.dir].logs,
                                  disk[g.part.dir].indexes, payload, fault))

Produce(name, id, payload) ==
    /\ Alive
    /\ rret.seq < MaxCalls
    /\ ProduceTo(name, id, payload, NoFault, GetPartition(topics, name, id))
    /\ UNCHANGED <<partVars, readVars, lockVars, stream>>

\* Producer.Produce one of whose writes fails.
FailedProduce(name, id, payload, part, a) ==
    a.failed /\ Produced(name, id, payload, part, a)

ProduceFailTo(name, id, payload, fault, g) ==
    /\ g.err = NoErr
    /\ FailedProduce(name, id, payload, g.part,
                     PartitionAppend(g.part.segments, disk[g.part.dir].logs,
                                     disk[g.part.dir].indexes, payload, fault))

ProduceFail(name, id, payload, fault) ==
    /\ Alive
    /\ rret.seq < MaxCalls
    /\ rret.failures < MaxFaults
    /\ ProduceFailTo(name, id, payload, fault, GetPartition(topics, name, id))
    /\ UNCHANGED <<partVars, readVars, lockVars, stream>>

\* Process restarts per behaviour.
MaxRestarts == 1

\* The write failures tried through the Producer: at the first write of the
\* frame and at the first write of the index entry.
ProduceFaults(payload) ==
    {f \in Faults(payload) : f.step \in {StepOffset, StepIndexRel}}

\* The process ends and main starts again on the same data directory:
\* NewRegistry makes an empty map, NewHandler a new Consumer.
Restart ==
    /\ rret.restarts < MaxRestarts
    /\ rret.op # "NewRegistry"
    /\ topics' = <<>>
    /\ rret' = [NoRRet EXCEPT !.seq = rret.seq, !.failures = rret.failures,
                              !.restarts = rret.restarts + 1]
    /\ stream' = IdleStream
    /\ UNCHANGED <<partVars, readVars, lockVars, disk, produced>>

NextRegistry ==
    \/ \E name \in TopicNames : \E n \in Counts : \E failAt \in (-1)..(MaxPartitions - 1) :
            CreateTopic(name, n, failAt)
    \/ \E name \in TopicNames : LookupTopic(name)
    \/ \E name \in TopicNames : \E id \in PartitionIds : LookupPartition(name, id)
    \/ \E name \in TopicNames : \E id \in PartitionIds : \E payload \in Payloads :
            Produce(name, id, payload)
    \/ \E name \in TopicNames : \E id \in PartitionIds : \E payload \in Payloads :
            \E fault \in ProduceFaults(payload) : ProduceFail(name, id, payload, fault)
    \/ Restart

SpecRegistry == Init /\ [][NextRegistry]_vars


(***************************************************************************)
(* What the claims about the registry speak of                             *)
(***************************************************************************)
\* The step is a Registry call named op.
CallStep(op) == rret'.seq = rret.seq + 1 /\ rret'.op = op

\* The registered partitions, as (topic, id) pairs.
Registered(tp) == {<<name, id>> \in TopicNames \X (0..MaxPartitions) :
                      name \in DOMAIN tp /\ id < Len(tp[name])}

\* Partition.NextOffset() and Partition.Read(offset) of a registered
\* partition.
NextOffsetOf(tp, x) == PartitionNextOffset(tp[x[1]][x[2] + 1].segments)

ReadOf(tp, d, x, offset) ==
    PartitionRead(tp[x[1]][x[2] + 1].segments, DirFiles(d, tp[x[1]][x[2] + 1].dir).logs,
                  offset)

\* C14: a CreateTopic with a partition count of zero or less, on a name not
\* registered, returns an error and registers nothing: GetTopic of the name
\* fails and a CreateTopic of the name with a valid count succeeds.
C14_InvalidCount ==
    (rret.op = "CreateTopic" /\ rret.n <= 0 /\ rret.err # ErrTopicExists) =>
        /\ rret.err \notin {NoErr, ErrPanic}
        /\ rret.name \notin DOMAIN topics
        /\ GetTopic(topics, rret.name).err = ErrTopicNotFound
        /\ CreateTopicResult(topics, disk, rret.name, 1, -1).err = NoErr

\* C15: a CreateTopic on a registered name returns the already-exists error
\* and changes nothing: the topics, their partitions and the files are as
\* before, and no partition was opened.
C15_AlreadyExists ==
    [][(CallStep("CreateTopic") /\ rret'.name \in DOMAIN topics) =>
            /\ rret'.err = ErrTopicExists
            /\ rret'.opened = 0
            /\ topics' = topics
            /\ disk' = disk
            /\ produced' = produced]_vars

\* A CreateTopic was rejected for a topic one of whose partitions holds a
\* record.
C15_Witness ==
    /\ rret.op = "CreateTopic"
    /\ rret.err = ErrTopicExists
    /\ \E x \in Registered(topics) : x[1] = rret.name /\ NextOffsetOf(topics, x) > 0

\* C16: when CreateTopic fails at opening partition i, the i partitions it
\* had opened are all closed, the name is not registered, and a CreateTopic
\* of the same name is not rejected as a duplicate.
C16_CreateRollback ==
    (rret.op = "CreateTopic" /\ rret.err \notin {NoErr, ErrTopicExists, ErrPanic}) =>
        /\ Len(rret.dropped) = rret.opened
        /\ \A j \in 1..Len(rret.dropped) : ~rret.dropped[j].open
        /\ rret.name \notin DOMAIN topics
        /\ CreateTopicResult(topics, disk, rret.name, rret.n, -1).err # ErrTopicExists

\* A CreateTopic failed after it had opened a partition.
C16_Witness ==
    /\ rret.op = "CreateTopic"
    /\ rret.err \notin {NoErr, ErrTopicExists, ErrPanic}
    /\ rret.opened > 0

\* What GetPartition must return in this state, for every request.
GetPartitionRight ==
    \A name \in TopicNames : \A id \in PartitionIds :
        IF name \notin DOMAIN topics
        THEN GetPartition(topics, name, id).err = ErrTopicNotFound
        ELSE IF id < 0 \/ id >= Len(topics[name])
        THEN GetPartition(topics, name, id).err = ErrPartitionNotFound
        ELSE /\ GetPartition(topics, name, id).err = NoErr
             /\ GetPartition(topics, name, id).part.dir = PartitionDir(name, id)
             /\ GetPartition(topics, name, id).part.open

\* C17: GetPartition fails with the topic-not-found error for an
\* unregistered topic, with the partition-not-found error for an id outside
\* [0, count), and otherwise returns the partition opened for that id; while
\* a topic is registered its partition count does not change.
C17_GetPartition ==
    /\ []GetPartitionRight
    /\ [][\A name \in DOMAIN topics \cap DOMAIN topics' :
            Len(topics'[name]) = Len(topics[name])]_vars

\* A GetPartition has returned partition 1 of a topic.
C17_Witness == rret.op = "GetPartition" /\ rret.err = NoErr /\ rret.id = 1

\* An append to partition x leaves every other registered partition as it
\* was: its object, its files, its next offset and what its reads return.
OthersKept(x) ==
    \A y \in Registered(topics) \ {x} :
        /\ y \in Registered(topics')
        /\ topics'[y[1]][y[2] + 1] = topics[y[1]][y[2] + 1]
        /\ DirFiles(disk', topics'[y[1]][y[2] + 1].dir)
              = DirFiles(disk, topics[y[1]][y[2] + 1].dir)
        /\ NextOffsetOf(topics', y) = NextOffsetOf(topics, y)
        /\ \A o \in Offsets : ReadOf(topics', disk', y, o) = ReadOf(topics, disk, y, o)

\* A partition that never received an append is empty, and the first
\* append a partition receives is stamped 0.
StartsAtZero ==
    /\ \A x \in Registered(topics) :
        ProducedAt(x[1], x[2]) = <<>> =>
            /\ NextOffsetOf(topics, x) = 0
            /\ OutOfRange(ReadOf(topics, disk, x, 0).err)
    /\ \A x \in DOMAIN produced : produced[x][1].stamped = 0

ErrCanceled == "context canceled"

\* The offsets a ConsumeRequest asks for.
StartOffsets == 0..1

\* Consumer.offsetKey: topic + ":" + string(rune(partition)), one character
\* per partition id.
offsetKey(topic, partition) == <<topic, ":", partition>>

\* Consumer.Consume, lines 34-45: part.Read(offset) on the Partition that
\* GetPartition returned in g.
ConsumedFrom(g, d, offset) ==
    IF g.err # NoErr
    THEN [err |-> g.err, Offset |-> -1, Payload |-> <<>>]
    ELSE PartitionRead(g.part.segments, DirFiles(d, g.part.dir).logs, offset)

ConsumerConsume(tp, d, topic, partition, offset) ==
    ConsumedFrom(GetPartition(tp, topic, partition), d, offset)

\* The offset is the tail of the partition GetPartition returned in g.
TailOf(g, offset) ==
    g.err = NoErr /\ offset = PartitionNextOffset(g.part.segments)

AtTail(tp, topic, partition, offset) == TailOf(GetPartition(tp, topic, partition), offset)

\* pb.ConsumeResponse: the fields not set are zero.
Response(offset, payload, error) == [Offset |-> offset, Payload |-> payload, Error |-> error]

\* Handler.Consume(req, stream) starts: currentOffset := req.Offset.
ConsumeStart(name, id, offset) ==
    /\ Alive
    /\ stream.status = "idle"
    /\ stream' = [stream EXCEPT !.status = "running", !.topic = name, !.partition = id,
                                !.offset = offset, !.currentOffset = offset]
    /\ UNCHANGED <<partVars, readVars, lockVars, topics, disk, rret, produced>>

\* The default case of the select, lines 63-83, Consumer.Consume having
\* returned c: "EOF" continues, another error is sent as a response and
\* Send's result returned, a record is sent and currentOffset moves past it.
Iterated(c, atTail) ==
    stream' =
        IF c.err = NoErr
        THEN [stream EXCEPT !.sent = Append(@, Response(c.Offset, c.Payload, "")),
                            !.currentOffset = c.Offset + 1,
                            !.offsets = (offsetKey(stream.topic, stream.partition)
                                            :> stream.currentOffset + 1) @@ @,
                            !.tail = @ \/ atTail]
        ELSE IF c.err = EOF
        THEN [stream EXCEPT !.tail = @ \/ atTail]
        ELSE [stream EXCEPT !.sent = Append(@, Response(0, <<>>, c.err)),
                            !.status = "returned", !.err = NoErr,
                            !.tail = @ \/ atTail]

\* One iteration of the loop of Handler.Consume, lines 58-85.
ConsumeLoop ==
    /\ Alive
    /\ stream.status = "running"
    /\ IF stream.cancelled
       THEN stream' = [stream EXCEPT !.status = "returned", !.err = ErrCanceled]
       ELSE Iterated(ConsumerConsume(topics, disk, stream.topic, stream.partition,
                                     stream.currentOffset),
                     AtTail(topics, stream.topic, stream.partition, stream.currentOffset))
    /\ UNCHANGED <<partVars, readVars, lockVars, topics, disk, rret, produced>>

\* The client cancels the stream's context.
Cancel ==
    /\ stream.status = "running"
    /\ ~stream.cancelled
    /\ stream' = [stream EXCEPT !.cancelled = TRUE]
    /\ UNCHANGED <<partVars, readVars, lockVars, topics, disk, rret, produced>>

\* One consumer stream beside the topic creations and the producers.  The
\* handler's goroutine keeps running: its loop is weakly fair.
NextStream ==
    \/ \E name \in TopicNames : \E n \in 1..MaxPartitions : CreateTopic(name, n, -1)
    \/ \E name \in TopicNames : \E id \in PartitionIds : \E payload \in Payloads :
            Produce(name, id, payload)
    \/ \E name \in TopicNames : \E id \in PartitionIds : \E offset \in StartOffsets :
            ConsumeStart(name, id, offset)
    \/ ConsumeLoop
    \/ Cancel

SpecStream == Init /\ [][NextStream]_vars /\ WF_vars(ConsumeLoop)

\* The responses sent carry no error.
NoErrorSent == \A i \in 1..Len(stream.sent) : stream.sent[i].Error = ""

\* The stream reached the tail and the client has not cancelled: the call
\* has not returned and no error response was sent.
TailWaits ==
    (stream.tail /\ ~stream.cancelled) => (stream.status = "running" /\ NoErrorSent)

\* The records sent are those of the offsets from req.Offset on, one each.
SentInOrder ==
    \A i \in 1..Len(stream.sent) :
        stream.sent[i].Error = "" => stream.sent[i].Offset = stream.offset + i - 1

\* The partition of a stream that reached the tail holds offset o, not yet
\* sent.
Pending(o) ==
    /\ stream.tail
    /\ o >= stream.currentOffset
    /\ GetPartition(topics, stream.topic, stream.partition).err = NoErr
    /\ o < PartitionNextOffset(GetPartition(topics, stream.topic,
                                            stream.partition).part.segments)

\* Offset o was sent on the stream.
Delivered(o) == \E i \in 1..Len(stream.sent) :
                    stream.sent[i].Error = "" /\ stream.sent[i].Offset = o

\* C13: a streaming Consume that reached the tail of its partition neither
\* returns nor sends an error response while the client has not cancelled;
\* what it sends is in offset order without gap or duplicate, and every
\* record appended after the tail was reached is eventually sent unless
\* the client cancels.
C13_TailWaits ==
    /\ []TailWaits
    /\ [](stream.tail => SentInOrder)
    /\ \A o \in 0..MaxCalls : Pending(o) ~> (stream.cancelled \/ Delivered(o))


(***************************************************************************)
(* The index of a segment                                                  *)
(***************************************************************************)
\* The frame f is a whole record whose CRC matches and which carries the
\* offset.
ValidRecord(f, offset) ==
    /\ f.err = NoErr
    /\ f.crc = ChecksumIEEE(f.payload)
    /\ OffsetValue(f.offset) = offset

\* A valid record carrying the offset begins at byte pos of the log.
RecordAt(log, pos, offset) ==
    pos >= 0 /\ ValidRecord(ReadFrame(log, pos), offset)

\* Every in-memory index entry of the segment points at the record of its
\* offset.
IndexPoints(seg, log) ==
    \A k \in 1..Len(seg.indexEntries) :
        RecordAt(log, seg.indexEntries[k].Position,
                 seg.baseOffset + seg.indexEntries[k].RelativeOffset)

\* The relative offsets of the in-memory index entries strictly increase.
IndexIncreasing(seg) ==
    \A k \in 1..(Len(seg.indexEntries) - 1) :
        seg.indexEntries[k].RelativeOffset < seg.indexEntries[k + 1].RelativeOffset

\* C21: in every segment of the open partition, also after a recovery that
\* truncated the log and after the appends that follow it, every in-memory
\* index entry (rel, pos) has a valid record with offset baseOffset + rel
\* beginning at byte pos, and the relative offsets strictly increase.
C21_IndexValidity ==
    open =>
        \A i \in 1..Len(segments) :
            /\ IndexPoints(segments[i], logs[segments[i].file])
            /\ IndexIncreasing(segments[i])


(***************************************************************************)
(* The size of a segment                                                   *)
(***************************************************************************)
\* Segment.Size(), lines 258-262.
Size(seg) == seg.size

\* Segment.Size() is the byte length of the segment's log file.
SizeIsLength(seg, log) == Size(seg) = Len(log)

\* Every record of the log starts below SegmentMaxBytes.
StartsBelowMax(log) == \A pos \in FramesFrom(log, 0) : pos < SegmentMaxBytes

\* C23: between appends, Segment.Size() of every segment of the open
\* partition equals the byte length of its log file, also right after an
\* open whose recovery truncated the log and after an append that failed
\* part-way, and every record starts at a byte position below
\* SegmentMaxBytes.
C23_SizeIsLength ==
    open =>
        \A i \in 1..Len(segments) :
            /\ SizeIsLength(segments[i], logs[segments[i].file])
            /\ StartsBelowMax(logs[segments[i].file])


(***************************************************************************)
(* The mutexes: Registry.mutex, Partition.mutex, Segment.mutex             *)
(*                                                                         *)
(* Every call is the sequence of lock steps its code makes.  Where the     *)
(* code reads state under a lock and takes one path or another (the topic  *)
(* exists, the active segment is full, the offset is in a segment), the    *)
(* steps that follow are chosen at that point.  A sync.RWMutex admits a    *)
(* writer in two steps: Lock first excludes other writers and new readers, *)
(* then waits until the readers that hold the mutex have left.             *)
(***************************************************************************)
RegistryMutex == <<"Registry", 0, 0>>
PartitionMutex(p) == <<"Partition", p, 0>>
SegmentMutex(p, s) == <<"Segment", p, s>>

\* The level of a mutex: Registry above Partition above Segment.
Level(mu) == CASE mu[1] = "Registry" -> 1
               [] mu[1] = "Partition" -> 2
               [] mu[1] = "Segment" -> 3

\* The state of a mutex; one nobody touched yet is the zero RWMutex.
Mu(mu) == IF mu \in DOMAIN mutexes THEN mutexes[mu] ELSE FreeMutex

\* len(p.segments) of partition p, 0 while its directory does not exist.
NSeg(w, p) == IF p \in DOMAIN w.nseg THEN w.nseg[p] ELSE 0

\* One step of a call: do is what it does, mu the mutex, p the partition
\* and n the partition count it is about.
Step(do, mu, p, n) == [do |-> do, mu |-> mu, p |-> p, n |-> n]

LockSteps(mu) == <<Step("Lock", mu, 0, 0), Step("Drain", mu, 0, 0)>>
UnlockSteps(mu) == <<Step("Unlock", mu, 0, 0)>>
RLockSteps(mu) == <<Step("RLock", mu, 0, 0)>>
RUnlockSteps(mu) == <<Step("RUnlock", mu, 0, 0)>>

\* Segment.Size, Segment.NextOffset, Segment.Read: s.mutex.RLock() and the
\* deferred RUnlock.
SegmentShared(p, s) == RLockSteps(SegmentMutex(p, s)) \o RUnlockSteps(SegmentMutex(p, s))

\* Segment.recover, Segment.Append, Segment.Close: s.mutex.Lock() and the
\* deferred Unlock.
SegmentExclusive(p, s) == LockSteps(SegmentMutex(p, s)) \o UnlockSteps(SegmentMutex(p, s))

\* SegmentExclusive on segments i..k of partition p, in order.
RECURSIVE SegmentsExclusive(_, _, _)
SegmentsExclusive(p, i, k) ==
    IF i > k THEN <<>> ELSE SegmentExclusive(p, i) \o SegmentsExclusive(p, i + 1, k)

\* SegmentShared on segments i..k of partition p, in order.
RECURSIVE SegmentsShared(_, _, _)
SegmentsShared(p, i, k) ==
    IF i > k THEN <<>> ELSE SegmentShared(p, i) \o SegmentsShared(p, i + 1, k)

\* NewPartition on a directory holding k segments: LoadSegments opens each
\* (NewSegment runs recover), and NewSegment(dir, 0) makes the first one
\* when there is none.
NewPartitionSteps(p, k) ==
    IF k = 0 THEN SegmentExclusive(p, 1) \o <<Step("grow", <<>>, p, 0)>>
    ELSE SegmentsExclusive(p, 1, k)

\* Partition.Close: p.mutex.Lock(), then the segments under it.
PartitionCloseSteps(p) ==
    LockSteps(PartitionMutex(p)) \o <<Step("ClosePartitionBody", <<>>, p, 0)>>

\* NewPartition for partitions i..m-1.
RECURSIVE OpenAll(_, _, _)
OpenAll(w, i, m) ==
    IF i >= m THEN <<>> ELSE NewPartitionSteps(i, NSeg(w, i)) \o OpenAll(w, i + 1, m)

\* Partition.Close for partitions i..m-1.
RECURSIVE CloseAll(_, _)
CloseAll(i, m) ==
    IF i >= m THEN <<>> ELSE PartitionCloseSteps(i) \o CloseAll(i + 1, m)

\* Registry.CreateTopic under r.mutex, lines 90-112: failAt is the
\* partition whose NewPartition fails, -1 when none does.
CreateTopicBody(w, n, failAt) ==
    IF w.registered THEN UnlockSteps(RegistryMutex)
    ELSE IF n < 0 THEN <<Step("panic", <<>>, 0, 0)>>
    ELSE IF failAt >= 0
    THEN OpenAll(w, 0, failAt) \o CloseAll(0, failAt) \o UnlockSteps(RegistryMutex)
    ELSE OpenAll(w, 0, n) \o <<Step("register", <<>>, 0, n)>> \o UnlockSteps(RegistryMutex)

\* Registry.Close under r.mutex, lines 144-148.
CloseBody(w) ==
    (IF w.registered THEN CloseAll(0, w.parts) ELSE <<>>) \o UnlockSteps(RegistryMutex)

\* Partition.Close under p.mutex, lines 97-99.
ClosePartitionBody(w, p) ==
    SegmentsExclusive(p, 1, NSeg(w, p)) \o UnlockSteps(PartitionMutex(p))

\* Partition.Append under p.mutex, lines 47-65: Size of the active segment,
\* then NextOffset and NewSegment when it rolls, then Segment.Append.
AppendBody(w, p, roll) ==
    SegmentShared(p, NSeg(w, p))
        \o (IF roll
            THEN SegmentShared(p, NSeg(w, p)) \o SegmentExclusive(p, NSeg(w, p) + 1)
                    \o <<Step("grow", <<>>, p, 0)>> \o SegmentExclusive(p, NSeg(w, p) + 1)
            ELSE SegmentExclusive(p, NSeg(w, p)))
        \o UnlockSteps(PartitionMutex(p))

\* Partition.Read under p.mutex, lines 73-79: NextOffset of the segments
\* 1..j whose base offset is not above the offset, and Segment.Read on
\* segment j when it holds the offset.
ReadBody(p, j, found) ==
    SegmentsShared(p, 1, j) \o (IF found THEN SegmentShared(p, j) ELSE <<>>)
        \o RUnlockSteps(PartitionMutex(p))

\* Partition.NextOffset under p.mutex, lines 86-90.
NextOffsetBody(w, p) ==
    (IF NSeg(w, p) = 0 THEN <<>> ELSE SegmentShared(p, NSeg(w, p)))
        \o RUnlockSteps(PartitionMutex(p))

\* The goroutine runs a call.
Busy(t) == calls[t].prog # <<>>

\* A call starts.
Call(t, op, prog) ==
    /\ ~Busy(t)
    /\ world.ncalls < MaxLockCalls
    /\ calls' = [calls EXCEPT ![t] = [op |-> op, prog |-> prog, held |-> <<>>]]
    /\ world' = [world EXCEPT !.ncalls = @ + 1]
    /\ UNCHANGED <<partVars, readVars, regVars, pmutex, appenders, order, mutexes>>

\* A partition of the registered topic, as GetPartition returns it.
IsPartition(p) == world.registered /\ p < world.parts

CallCreateTopic(t, n) ==
    /\ Alive
    /\ Call(t, "CreateTopic",
            LockSteps(RegistryMutex) \o <<Step("CreateTopicBody", <<>>, 0, n)>>)

\* Registry.GetPartition: GetTopic takes r.mutex shared and releases it.
CallGetPartition(t) ==
    /\ Alive
    /\ Call(t, "GetPartition", RLockSteps(RegistryMutex) \o RUnlockSteps(RegistryMutex))

CallClose(t) ==
    /\ Alive
    /\ Call(t, "Close", LockSteps(RegistryMutex) \o <<Step("CloseBody", <<>>, 0, 0)>>)

CallAppend(t, p) ==
    /\ Alive
    /\ IsPartition(p)
    /\ Call(t, "Append", LockSteps(PartitionMutex(p)) \o <<Step("AppendBody", <<>>, p, 0)>>)

CallRead(t, p) ==
    /\ Alive
    /\ IsPartition(p)
    /\ Call(t, "Read", RLockSteps(PartitionMutex(p)) \o <<Step("ReadBody", <<>>, p, 0)>>)

CallNextOffset(t, p) ==
    /\ Alive
    /\ IsPartition(p)
    /\ Call(t, "NextOffset",
            RLockSteps(PartitionMutex(p)) \o <<Step("NextOffsetBody", <<>>, p, 0)>>)

\* The step the goroutine is at.
At(t) == Head(calls[t].prog)

\* The goroutine moves past its step, its locks and the mutex becoming as
\* given.
Moved(t, held, mu, m) ==
    /\ calls' = [calls EXCEPT ![t].prog = Tail(@), ![t].held = held]
    /\ mutexes' = (mu :> m) @@ mutexes
    /\ UNCHANGED <<partVars, readVars, regVars, pmutex, appenders, order, world>>

\* held without the mutex.
Without(held, mu) == SelectSeq(held, LAMBDA x : x # mu)

\* rw.Lock(): the writer excludes other writers and new readers (Lock),
\* then waits for the readers to leave (Drain).
LockStep(t) ==
    /\ Alive
    /\ Busy(t)
    /\ \/ /\ At(t).do = "Lock"
          /\ Mu(At(t).mu).w = 0
          /\ Moved(t, Append(calls[t].held, At(t).mu), At(t).mu,
                   [Mu(At(t).mu) EXCEPT !.w = t])
       \/ /\ At(t).do = "Drain"
          /\ Mu(At(t).mu).r = {}
          /\ Moved(t, calls[t].held, At(t).mu, Mu(At(t).mu))

\* rw.RLock(): blocked while a writer holds or waits for the mutex.
RLockStep(t) ==
    /\ Alive
    /\ Busy(t)
    /\ At(t).do = "RLock"
    /\ Mu(At(t).mu).w = 0
    /\ Moved(t, Append(calls[t].held, At(t).mu), At(t).mu,
             [Mu(At(t).mu) EXCEPT !.r = @ \cup {t}])

\* rw.Unlock() and rw.RUnlock().
UnlockStep(t) ==
    /\ Alive
    /\ Busy(t)
    /\ \/ /\ At(t).do = "Unlock"
          /\ Moved(t, Without(calls[t].held, At(t).mu), At(t).mu,
                   [Mu(At(t).mu) EXCEPT !.w = 0])
       \/ /\ At(t).do = "RUnlock"
          /\ Moved(t, Without(calls[t].held, At(t).mu), At(t).mu,
                   [Mu(At(t).mu) EXCEPT !.r = @ \ {t}])

\* The goroutine goes on with the steps of the path its code takes.
Goes(t, prog) ==
    /\ calls' = [calls EXCEPT ![t].prog = prog \o Tail(@)]
    /\ UNCHANGED <<partVars, readVars, regVars, pmutex, appenders, order, mutexes, world>>

\* The code under a lock picks its path.
BodyStep(t) ==
    /\ Alive
    /\ Busy(t)
    /\ \/ /\ At(t).do = "CreateTopicBody"
          /\ \E failAt \in {-1} \cup 0..(At(t).n - 1) :
                Goes(t, CreateTopicBody(world, At(t).n, failAt))
       \/ /\ At(t).do = "CloseBody"
          /\ Goes(t, CloseBody(world))
       \/ /\ At(t).do = "ClosePartitionBody"
          /\ Goes(t, ClosePartitionBody(world, At(t).p))
       \/ /\ At(t).do = "AppendBody"
          /\ \E roll \in BOOLEAN :
                /\ roll => NSeg(world, At(t).p) < MaxSegments
                /\ Goes(t, AppendBody(world, At(t).p, roll))
       \/ /\ At(t).do = "ReadBody"
          /\ \E j \in 0..NSeg(world, At(t).p) : \E found \in BOOLEAN :
                /\ found => j >= 1
                /\ Goes(t, ReadBody(At(t).p, j, found))
       \/ /\ At(t).do = "NextOffsetBody"
          /\ Goes(t, NextOffsetBody(world, At(t).p))

\* What a call changes besides the mutexes: a segment is added to a
\* partition (grow), the topic is registered (r.topics[name] = topic), or
\* make panics on a negative length and the process ends.
EffectStep(t) ==
    /\ Alive
    /\ Busy(t)
    /\ \/ /\ At(t).do = "grow"
          /\ world' = [world EXCEPT !.nseg = (At(t).p :> (NSeg(world, At(t).p) + 1)) @@ @]
          /\ calls' = [calls EXCEPT ![t].prog = Tail(@)]
          /\ UNCHANGED rret
       \/ /\ At(t).do = "register"
          /\ world' = [world EXCEPT !.registered = TRUE, !.parts = At(t).n]
          /\ calls' = [calls EXCEPT ![t].prog = Tail(@)]
          /\ UNCHANGED rret
       \/ /\ At(t).do = "panic"
          /\ rret' = [rret EXCEPT !.err = ErrPanic]
          /\ UNCHANGED <<calls, world>>
    /\ UNCHANGED <<partVars, readVars, pmutex, appenders, order, mutexes,
                   topics, disk, produced, stream>>

\* The goroutine takes a step of its call.
Run(t) == LockStep(t) \/ RLockStep(t) \/ UnlockStep(t) \/ BodyStep(t) \/ EffectStep(t)

NextLocks ==
    \/ \E t \in Threads : \E n \in Counts : CallCreateTopic(t, n)
    \/ \E t \in Threads : CallGetPartition(t)
    \/ \E t \in Threads : CallClose(t)
    \/ \E t \in Threads : \E p \in 0..(MaxPartitions - 1) : CallAppend(t, p)
    \/ \E t \in Threads : \E p \in 0..(MaxPartitions - 1) : CallRead(t, p)
    \/ \E t \in Threads : \E p \in 0..(MaxPartitions - 1) : CallNextOffset(t, p)
    \/ \E t \in Threads : LockStep(t)
    \/ \E t \in Threads : RLockStep(t)
    \/ \E t \in Threads : UnlockStep(t)
    \/ \E t \in Threads : BodyStep(t)
    \/ \E t \in Threads : EffectStep(t)

\* Lock acquisition is fair: a goroutine that can again and again take its
\* next step takes it.
SpecLocks == Init /\ [][NextLocks]_vars /\ \A t \in Threads : SF_vars(Run(t))

\* The goroutine can take its next step.
CanRun(t) ==
    /\ Busy(t)
    /\ CASE At(t).do \in {"Lock", "RLock"} -> Mu(At(t).mu).w = 0
         [] At(t).do = "Drain" -> Mu(At(t).mu).r = {}
         [] OTHER -> TRUE

\* The mutexes a goroutine holds were taken top-down, one per level.
TopDown ==
    \A t \in Threads : \A i \in 1..Len(calls[t].held) : \A j \in 1..Len(calls[t].held) :
        i < j => Level(calls[t].held[i]) < Level(calls[t].held[j])

\* While the process runs, some goroutine that is in a call can step.
NoDeadlock ==
    (Alive /\ \E t \in Threads : Busy(t)) => \E t \in Threads : CanRun(t)

\* No call in progress is cut short by the end of the process.
NeverAbandoned == \A t \in Threads : Busy(t) => Alive

\* C22: every goroutine holds its mutexes top-down (Registry, Partition,
\* Segment) and at most one per level; no interleaving of CreateTopic,
\* GetPartition, Append, Read, NextOffset and Close calls reaches a state
\* where the calls in progress all wait; and under fair lock acquisition
\* every call returns, none being left unfinished.
C22_LockOrdering ==
    /\ []TopDown
    /\ []NoDeadlock
    /\ []NeverAbandoned
    /\ \A t \in Threads : Busy(t) ~> ~Busy(t)
====
